---- MODULE Spec2Model ----
(***************************************************************************)
(* FyreOne AI API (src/fire-processor/api.py): the /signup, /login, /ask   *)
(* and /admin handlers over the JSON data file.  Handlers are synchronous  *)
(* FastAPI endpoints, so they run on worker threads and several requests   *)
(* may be between their load_data() and their save_data() at once.         *)
(*                                                                         *)
(* Strings are sequences of one-character strings, so that strip(),        *)
(* lower() and len() are computed.  Timestamps, IP addresses, user agents  *)
(* and phone numbers are carried by no decision of the code and are left   *)
(* out of the records.                                                     *)
(***************************************************************************)
EXTENDS Integers, Sequences, FiniteSets, TLC

\* ------------------------------------------------------------- bounds
MaxAsk == 2          \* successful /ask answers after which no /ask starts, sequential runs
MaxLogins == 2       \* LoginEvents a loaded document may hold at most before a /login logs another, sequential runs
MaxAskConc == 2      \* as MaxAsk, concurrent runs
MaxLoginsConc == 1   \* as MaxLogins, concurrent runs
QuotaRun == 102      \* successful /ask answers of the sequential quota run

\* ---------------------------------------------------- program constants
QUOTA == 100           \* "remaining": 100 - user["count"]
MinPasswordLen == 6    \* len(req.password) < 6
MaxSources == 5        \* sources[:5]

\* ------------------------------------------------------------- strings
Rep(c, n) == [i \in 1..n |-> c]

LowerChar(c) == IF c = "A" THEN "a" ELSE IF c = "B" THEN "b" ELSE c

\* str.lower()
Lower(s) == [i \in 1..Len(s) |-> LowerChar(s[i])]

RECURSIVE LStrip(_)
LStrip(s) == IF s # <<>> /\ s[1] = " " THEN LStrip(Tail(s)) ELSE s

RECURSIVE RStrip(_)
RStrip(s) == IF s # <<>> /\ s[Len(s)] = " " THEN RStrip(SubSeq(s, 1, Len(s) - 1)) ELSE s

\* str.strip()
Strip(s) == RStrip(LStrip(s))

\* hashlib.sha256(password.encode()).hexdigest(): a digest, equal for equal
\* passwords and (no collision among the passwords drawn) different otherwise
hash_password(password) == [sha256 |-> password]

\* ------------------------------------------------------------- inputs
Workers == {"w1", "w2"}      \* request-handling threads of the concurrent runs
SessionIds == {"s1", "s2"}
Names == {<<" ">>, <<"n">>}
Emails == {<<" ">>, <<"a">>, <<"A", " ">>}
Questions == {<<>>, <<" ">>, <<"q">>}
ADMIN_PASSWORD == <<"c">>
AdminInputs == {<<"c">>, <<"x">>}
\* a match of the index: metadata filename and text, either of which may be empty
Match(filename, text) == [filename |-> filename, text |-> text]
MatchLists == { <<>>,
                <<Match("f1", "t1")>>,
                <<Match("f1", "t1"), Match("f1", "t2")>>,
                <<Match("", "t1"), Match("f2", "")>> }

\* ------------------------------------------------------------ document
EmptyDoc == [users |-> [s \in {} |-> 0], registered_users |-> <<>>,
             queries |-> <<>>, login_logs |-> <<>>]

\* the file never found: every request starts from the default document
load_data_fresh(f, d) == EmptyDoc

\* load_data(): the parsed file, or the default document when the file is
\* missing or does not parse
load_data(f, d) == IF f = "ok" THEN d ELSE EmptyDoc

\* the first account whose email equals email_lower ignoring case, 0 if none:
\* next((u for u in registered_users if u["email"].lower() == email_lower), None)
RECURSIVE find_user(_, _, _)
find_user(users, email_lower, i) ==
    IF i > Len(users) THEN 0
    ELSE IF Lower(users[i].email) = email_lower THEN i
    ELSE find_user(users, email_lower, i + 1)

\* the stored email compared as it is, without lower()
email_registered_exact(users, email_lower) ==
    \E i \in 1..Len(users) : users[i].email = email_lower

\* any(u["email"].lower() == email_lower for u in registered_users)
email_registered(users, email_lower) == find_user(users, email_lower, 1) # 0

\* the Account signup builds
new_user(name, email, password) ==
    [name |-> Strip(name), email |-> Strip(email),
     password_hash |-> hash_password(password), login_count |-> 1]

\* the lazily created session: data["users"][session_id] = {"count": 0, ...}
with_session(data, sid) ==
    IF sid \in DOMAIN data.users THEN data
    ELSE [data EXCEPT !.users = [s \in DOMAIN data.users \cup {sid} |->
                                     IF s = sid THEN [count |-> 0] ELSE data.users[s]]]

\* the count lowered
count_down(data, sid) == [data EXCEPT !.users[sid].count = @ - 1]

\* the count raised at the lookup and again at the answer
count_up_twice(data, sid) == [data EXCEPT !.users[sid].count = @ + 2]

\* user["count"] += 1
count_up(data, sid) == [data EXCEPT !.users[sid].count = @ + 1]

\* data["queries"].append({"session_id": ..., "question": ...})
log_query(data, sid, question) ==
    [data EXCEPT !.queries = Append(@, [session_id |-> sid, question |-> question])]

\* the LoginEvent appended, login_count left as it was
log_login_uncounted(data, i, email) ==
    [data EXCEPT !.login_logs = Append(@, [email |-> email])]

\* the login's update of the account found and of login_logs
log_login(data, i, email) ==
    [data EXCEPT !.registered_users[i].login_count = @ + 1,
                 !.login_logs = Append(@, [email |-> email])]

\* search_knowledge(): no index, a failing embedding (no key, service
\* error) or a failing index query all give [], otherwise the matches
search_knowledge(c, embedOk, queryOk, found) ==
    IF ~c.index THEN <<>>
    ELSE IF ~c.hf \/ ~embedOk \/ ~queryOk THEN <<>>
    ELSE found

\* list(set(filename of each match that has one)): the distinct filenames
filenames(matches) ==
    {matches[i].filename : i \in {j \in 1..Len(matches) : matches[j].filename # ""}}

\* sources[:5] of a list built from a set: any MaxSources of them
source_lists(matches) ==
    {S \in SUBSET filenames(matches) :
        Cardinality(S) = IF Cardinality(filenames(matches)) < MaxSources
                         THEN Cardinality(filenames(matches)) ELSE MaxSources}

\* ------------------------------------------------------------- state
VARIABLES
    cfg,        \* which of index, HF_API_KEY and groq_client are set at start-up
    file,       \* the data file: "absent", "ok" (parses) or "partial" (does not)
    disk,       \* the document last written to the file completely
    pc,         \* per worker: "idle", "loaded", "saving", "writing"
    loc,        \* per worker: the request's local variables
    reply,      \* the response sent by the step just taken, NoReply if none
    asked,      \* per session: /ask requests answered with success
    signedUp,   \* lower-cased email and password hash of each /signup answered with success
    ioFault,    \* some save_data() call has failed
    raced       \* some request loaded while another was between load and save

vars == <<cfg, file, disk, pc, loc, reply, asked, signedUp, ioFault, raced>>

NoReply == [status |-> 0, detail |-> "", sources |-> {}, remaining |-> 0, total |-> <<>>]

\* an HTTP response: the status and the detail of an error or the body's text
Response(status, detail) == [NoReply EXCEPT !.status = status, !.detail = detail]

IdleLoc == [kind |-> "", data |-> EmptyDoc, out |-> NoReply, dirty |-> FALSE,
            sid |-> "", key |-> <<>>, base |-> 0]

\* the document a request reads now
Persisted == load_data(file, disk)

Init ==
    /\ cfg \in [index : BOOLEAN, hf : BOOLEAN, groq : BOOLEAN]
    /\ file = "absent"
    /\ disk = EmptyDoc
    /\ pc = [p \in Workers |-> "idle"]
    /\ loc = [p \in Workers |-> IdleLoc]
    /\ reply = NoReply
    /\ asked = [s \in SessionIds |-> 0]
    /\ signedUp = {}
    /\ ioFault = FALSE
    /\ raced = FALSE

\* ------------------------------------------------------------ helpers
Last(seq) == seq[Len(seq)]

\* the handler answers (an HTTPException, or a body) before load_data():
\* nothing is kept or written
Answer(p, status, detail) ==
    /\ reply' = Response(status, detail)
    /\ UNCHANGED <<cfg, file, disk, pc, loc, asked, signedUp, ioFault, raced>>

\* the handler raises its HTTPException after load_data(): nothing is kept
\* or written either
AnswerLoaded(p, status, detail) ==
    /\ reply' = Response(status, detail)
    /\ raced' = (raced \/ \E q \in DOMAIN pc \ {p} : pc[q] # "idle")
    /\ UNCHANGED <<cfg, file, disk, pc, loc, asked, signedUp, ioFault>>

\* the request has called load_data() and goes on with its own copy
Begin(p, kind, next, data, out, sid, key, base) ==
    /\ pc' = [pc EXCEPT ![p] = next]
    /\ loc' = [loc EXCEPT ![p] = [kind |-> kind, data |-> data, out |-> out,
                                  dirty |-> FALSE, sid |-> sid, key |-> key, base |-> base]]
    /\ raced' = (raced \/ \E q \in DOMAIN pc \ {p} : pc[q] # "idle")
    /\ reply' = NoReply
    /\ UNCHANGED <<cfg, file, disk, asked, signedUp, ioFault>>

\* the handler returns its response after save_data() has returned
Return(p) ==
    /\ reply' = loc[p].out
    /\ pc' = [pc EXCEPT ![p] = "idle"]
    /\ asked' = IF loc[p].kind = "ask" THEN [asked EXCEPT ![loc[p].sid] = @ + 1] ELSE asked
    /\ signedUp' = IF loc[p].kind = "signup"
                   THEN signedUp \cup {[email |-> loc[p].key,
                                        password_hash |-> Last(loc[p].data.registered_users).password_hash]}
                   ELSE signedUp

\* ------------------------------------------------------------ /signup
signup(p, name, email, password) ==
    /\ pc[p] = "idle"
    /\ IF Strip(name) = <<>> \/ Strip(email) = <<>> \/ password = <<>>
       THEN Answer(p, 400, "All fields required")
       ELSE IF Len(password) < MinPasswordLen
       THEN Answer(p, 400, "Password must be at least 6 characters")
       ELSE LET data == load_data(file, disk)
                email_lower == Strip(Lower(email))
            IN IF email_registered(data.registered_users, email_lower)
               THEN AnswerLoaded(p, 400, "Email already registered. Please log in.")
               ELSE Begin(p, "signup", "saving",
                          [data EXCEPT !.registered_users = Append(@, new_user(name, email, password))],
                          Response(200, "success"), "", email_lower, 0)

\* ------------------------------------------------------------- /login
\* a failed attempt logged in login_logs and saved
login_logs_failures(p, email, password, lim) ==
    /\ pc[p] = "idle"
    /\ IF Strip(email) = <<>> \/ password = <<>>
       THEN Answer(p, 400, "Email and password required")
       ELSE LET data == load_data(file, disk)
                email_lower == Strip(Lower(email))
                i == find_user(data.registered_users, email_lower, 1)
            IN IF i = 0
               THEN AnswerLoaded(p, 401, "No account found. Please sign up first.")
               ELSE /\ Len(data.login_logs) < lim
                    /\ IF data.registered_users[i].password_hash # hash_password(password)
                       THEN Begin(p, "login", "saving",
                                  [data EXCEPT !.login_logs = Append(@, [email |-> email])],
                                  Response(401, "Incorrect password"), "", email_lower,
                                  data.registered_users[i].login_count)
                       ELSE Begin(p, "login", "saving", log_login(data, i, email),
                                  Response(200, "success"), "", email_lower,
                                  data.registered_users[i].login_count)

login(p, email, password, lim) ==
    /\ pc[p] = "idle"
    /\ IF Strip(email) = <<>> \/ password = <<>>
       THEN Answer(p, 400, "Email and password required")
       ELSE LET data == load_data(file, disk)
                email_lower == Strip(Lower(email))
                i == find_user(data.registered_users, email_lower, 1)
            IN IF i = 0
               THEN AnswerLoaded(p, 401, "No account found. Please sign up first.")
               ELSE IF data.registered_users[i].password_hash # hash_password(password)
               THEN AnswerLoaded(p, 401, "Incorrect password")
               ELSE /\ Len(data.login_logs) < lim
                    /\ Begin(p, "login", "saving", log_login(data, i, email),
                             Response(200, "success"), "", email_lower,
                             data.registered_users[i].login_count)

\* --------------------------------------------------------------- /ask
FALLBACK == "I couldn't find specific information about that in the fire safety knowledge base."

\* remaining clamped at zero
fallback_response_clamped(count) ==
    [Response(200, FALLBACK) EXCEPT !.remaining = IF QUOTA - count < 0 THEN 0 ELSE QUOTA - count]

\* the response of the no-match path
fallback_response(count) ==
    [Response(200, FALLBACK) EXCEPT !.sources = {}, !.remaining = QUOTA - count]

\* the response of the answered path
answer_response(answer, sources, count) ==
    [Response(200, answer) EXCEPT !.sources = sources, !.remaining = QUOTA - count]

\* ask_question up to the session lookup (lines 201-209); lim bounds the run
ask_question(p, sid, question, lim) ==
    /\ pc[p] = "idle"
    /\ asked[sid] < lim
    /\ IF Strip(question) = <<>>
       THEN Answer(p, 400, "Question required")
       ELSE LET data == with_session(load_data(file, disk), sid)
            IN Begin(p, "ask", "loaded", data, NoReply, sid, question, data.users[sid].count)

\* the session counted and saved before the answer is generated
ask_pipeline_counts_first(p, embedOk, queryOk, found, genOk) ==
    /\ pc[p] = "loaded"
    /\ LET matches == search_knowledge(cfg, embedOk, queryOk, found)
           sid == loc[p].sid
           counted == count_up(loc[p].data, sid)
       IN /\ pc' = [pc EXCEPT ![p] = "saving"]
          /\ reply' = NoReply
          /\ IF matches = <<>>
             THEN loc' = [loc EXCEPT ![p].data = counted,
                                    ![p].out = fallback_response(counted.users[sid].count)]
             ELSE IF ~cfg.groq \/ ~genOk
             THEN loc' = [loc EXCEPT ![p].data = counted,
                                    ![p].out = Response(500, IF cfg.groq THEN "AI service unavailable"
                                                                   ELSE "AI service not configured")]
             ELSE \E src \in source_lists(matches) :
                     loc' = [loc EXCEPT ![p].data = log_query(counted, sid, loc[p].key),
                                       ![p].out = answer_response("answer", src, counted.users[sid].count)]
    /\ UNCHANGED <<cfg, file, disk, asked, signedUp, ioFault, raced>>

\* ask_question from search_knowledge() to the call of save_data() (lines 210-254)
ask_pipeline(p, embedOk, queryOk, found, genOk) ==
    /\ pc[p] = "loaded"
    /\ LET matches == search_knowledge(cfg, embedOk, queryOk, found)
           sid == loc[p].sid
           counted == count_up(loc[p].data, sid)
       IN IF matches = <<>>
          THEN /\ pc' = [pc EXCEPT ![p] = "saving"]
               /\ loc' = [loc EXCEPT ![p].data = counted,
                                     ![p].out = fallback_response(counted.users[sid].count)]
               /\ reply' = NoReply
          ELSE IF ~cfg.groq \/ ~genOk
          THEN \* chat_with_groq raises HTTPException(500, ...)
               /\ pc' = [pc EXCEPT ![p] = "idle"]
               /\ loc' = [loc EXCEPT ![p] = IdleLoc]
               /\ reply' = Response(500, IF cfg.groq THEN "AI service unavailable"
                                                      ELSE "AI service not configured")
          ELSE /\ pc' = [pc EXCEPT ![p] = "saving"]
               /\ \E src \in source_lists(matches) :
                     loc' = [loc EXCEPT ![p].data = log_query(counted, sid, loc[p].key),
                                       ![p].out = answer_response("answer", src, counted.users[sid].count)]
               /\ reply' = NoReply
    /\ UNCHANGED <<cfg, file, disk, asked, signedUp, ioFault, raced>>

\* ---------------------------------------------------------- save_data
\* save_data() up to open(DATA_FILE, 'w'), which truncates the file; when
\* makedirs or open raises the error is printed and the handler goes on
save_open(p, ok) ==
    /\ pc[p] = "saving"
    /\ IF ok
       THEN /\ file' = "partial"
            /\ pc' = [pc EXCEPT ![p] = "writing"]
            /\ loc' = [loc EXCEPT ![p].dirty = FALSE]
            /\ reply' = NoReply
            /\ UNCHANGED <<asked, signedUp, ioFault>>
       ELSE /\ Return(p)
            /\ loc' = [loc EXCEPT ![p] = IdleLoc]
            /\ ioFault' = TRUE
            /\ UNCHANGED file
    /\ UNCHANGED <<cfg, disk, raced>>

\* the other writers that have the file open: their bytes and these mix
Dirtied(p) == [q \in DOMAIN loc |->
                 IF q = p THEN IdleLoc
                 ELSE IF pc[q] = "writing" THEN [loc[q] EXCEPT !.dirty = TRUE] ELSE loc[q]]

\* a writer that reads the count on file again and adds its question to it
save_write_merge(p, ok, garbled) ==
    /\ pc[p] = "writing"
    /\ Return(p)
    /\ loc' = Dirtied(p)
    /\ IF ok /\ ~(loc[p].dirty /\ garbled)
       THEN /\ file' = "ok"
            /\ disk' = IF loc[p].kind = "ask" /\ loc[p].sid \in DOMAIN disk.users
                       THEN [loc[p].data EXCEPT !.users[loc[p].sid].count = disk.users[loc[p].sid].count + 1]
                       ELSE loc[p].data
       ELSE file' = "partial" /\ UNCHANGED disk
    /\ ioFault' = (ioFault \/ ~ok)
    /\ UNCHANGED <<cfg, raced>>

\* json.dump(data, f) and the close of the file.  A writer whose file was
\* written by another thread since it opened it leaves its own document or
\* bytes of both (garbled); a failing write leaves the file unparsable
save_write(p, ok, garbled) ==
    /\ pc[p] = "writing"
    /\ Return(p)
    /\ loc' = Dirtied(p)
    /\ IF ok /\ ~(loc[p].dirty /\ garbled)
       THEN file' = "ok" /\ disk' = loc[p].data
       ELSE file' = "partial" /\ UNCHANGED disk
    /\ ioFault' = (ioFault \/ ~ok)
    /\ UNCHANGED <<cfg, raced>>

\* -------------------------------------------------------------- admin
\* POST /admin/auth
admin_auth(p, password) ==
    /\ pc[p] = "idle"
    /\ IF password # ADMIN_PASSWORD
       THEN Answer(p, 401, "Invalid password")
       ELSE Answer(p, 200, "success")

\* GET /admin/leads, /admin/stats and /admin/queries: totals of what is loaded
admin_read(p, op, password) ==
    /\ pc[p] = "idle"
    /\ IF password # ADMIN_PASSWORD
       THEN Answer(p, 401, "Unauthorized")
       ELSE LET data == load_data(file, disk)
            IN /\ reply' = [Response(200, "") EXCEPT !.total =
                              CASE op = "admin_leads" -> <<Len(data.registered_users)>>
                                [] op = "admin_queries" -> <<Len(data.queries)>>
                                [] OTHER -> <<Len(data.registered_users), Len(data.queries),
                                              Len(data.login_logs)>>]
               /\ raced' = (raced \/ \E q \in DOMAIN pc \ {p} : pc[q] # "idle")
               /\ UNCHANGED <<cfg, file, disk, pc, loc, asked, signedUp, ioFault>>

AdminOps == {"admin_leads", "admin_stats", "admin_queries"}

\* --------------------------------------------------------------- runs
SignupPasswords == {Rep("p", 0), Rep("p", MinPasswordLen - 1), Rep("p", MinPasswordLen)}
LoginPasswords == {Rep("p", 0), Rep("p", MinPasswordLen), Rep("q", MinPasswordLen)}

AccountStep(p, emails, passwords, logins, lim) ==
    \/ \E n \in Names, e \in emails, w \in passwords : signup(p, n, e, w)
    \/ \E e \in logins, w \in LoginPasswords : login(p, e, w, lim)

AskStep(p, sids, lim, finds) ==
    \/ \E s \in sids, q \in Questions : ask_question(p, s, q, lim)
    \/ \E eo \in BOOLEAN, qo \in BOOLEAN, f \in finds, g \in BOOLEAN : ask_pipeline(p, eo, qo, f, g)

SaveStep(p, outcomes) ==
    \/ \E ok \in outcomes : save_open(p, ok)
    \/ \E ok \in outcomes, g \in BOOLEAN : save_write(p, ok, g)

AdminStep(p) ==
    \/ \E w \in AdminInputs : admin_auth(p, w)
    \/ \E op \in AdminOps, w \in AdminInputs : admin_read(p, op, w)

\* every index, key and client configured: each outcome of the pipeline stays possible
InitConfigured == Init /\ cfg = [index |-> TRUE, hf |-> TRUE, groq |-> TRUE]

\* /signup, /login and /ask served concurrently by the workers, for one
\* account and one session
Next ==
    \E p \in Workers :
        \/ AccountStep(p, {<<"a">>}, {Rep("p", MinPasswordLen)}, {<<"a">>}, MaxLoginsConc)
        \/ AskStep(p, {"s1"}, MaxAskConc, {<<>>, <<Match("f1", "t1")>>})
        \/ SaveStep(p, BOOLEAN)

Spec == InitConfigured /\ [][Next]_vars

\* /signup and /login served concurrently by the workers
NextAccounts ==
    \E p \in Workers :
        \/ AccountStep(p, {<<"a">>, <<"A", " ">>, <<"b">>}, {Rep("p", MinPasswordLen)},
                          {<<"A", " ">>, <<"b">>}, MaxLoginsConc)
        \/ SaveStep(p, BOOLEAN)

SpecAccounts == InitConfigured /\ [][NextAccounts]_vars

\* every endpoint, one request at a time
NextSeq ==
    \/ AccountStep("w1", Emails, SignupPasswords, Emails, MaxLogins)
    \/ AskStep("w1", {"s1"}, MaxAsk, MatchLists)
    \/ SaveStep("w1", BOOLEAN)
    \/ AdminStep("w1")

SpecSeq == Init /\ [][NextSeq]_vars

\* /ask for one session, one request at a time, every save succeeding
NextQuota == AskStep("w1", {"s1"}, QuotaRun, MatchLists) \/ SaveStep("w1", {TRUE})

SpecQuota == Init /\ [][NextQuota]_vars

\* ============================================================== claims
CountOf(doc, sid) == IF sid \in DOMAIN doc.users THEN doc.users[sid].count ELSE 0

\* C1: for a fresh session served one request at a time with every save
\* succeeding, the n-th successful /ask answers remaining = 100 - n (99 after
\* the first, 0 after the 100th, -1 after the 101st), and no /ask is refused
\* for its count: the only refusals are the blank question and a failed
\* generation
QuotaAdvisory ==
    /\ reply.status \in {0, 200, 400, 500}
    /\ reply.status = 400 => reply.detail = "Question required"
    /\ reply.status = 500 => reply.detail \in {"AI service unavailable", "AI service not configured"}
    /\ reply.status = 200 =>
          /\ reply.remaining = QUOTA - asked["s1"]
          /\ asked["s1"] = CountOf(Persisted, "s1")

\* the 101st question of the session has been answered
QuotaAdvisoryWitness ==
    reply.status = 200 /\ asked["s1"] = QUOTA + 1 /\ reply.remaining < 0

\* the worker of the sequential runs
W == "w1"

\* the worker returns from its handler in this step, after save_data()
Returns(p) == pc[p] \in {"saving", "writing"} /\ pc'[p] = "idle"

\* nothing written, and no save_data() call pending or made
Untouched == UNCHANGED <<file, disk, pc, loc>>

\* C2 as claimed: a /ask whose search finds nothing answers the fallback
\* with no sources, and when it returns the persisted count of its session
\* is one above the count it loaded
FallbackPersistsCount ==
    [][(Returns(W) /\ loc[W].kind = "ask" /\ loc[W].out.detail = FALLBACK) =>
          CountOf(Persisted', loc[W].sid) = loc[W].base + 1]_vars

\* C2 amended: a /ask whose search finds nothing (no index, no embedding,
\* a failing query, or no match) goes on to save a document whose count for
\* the session is one above the count loaded, answers 200 with the fallback
\* text and no sources whatever save_data() does, and the persisted count is
\* one above the count loaded when the write succeeded
FallbackCountsOnce ==
    [][/\ \A eo \in BOOLEAN, qo \in BOOLEAN, f \in MatchLists, g \in BOOLEAN :
             (ask_pipeline(W, eo, qo, f, g) /\ (~cfg.index \/ ~cfg.hf \/ ~eo \/ ~qo \/ f = <<>>)) =>
                 /\ pc'[W] = "saving"
                 /\ loc'[W].out = [status |-> 200, detail |-> FALLBACK, sources |-> {},
                                   remaining |-> QUOTA - (loc[W].base + 1), total |-> <<>>]
                 /\ CountOf(loc'[W].data, loc[W].sid) = loc[W].base + 1
                 /\ loc'[W].data.queries = loc[W].data.queries
       /\ (Returns(W) /\ loc[W].kind = "ask" /\ loc[W].out.detail = FALLBACK) =>
             /\ reply' = loc[W].out
             /\ (file' = "ok" /\ pc[W] = "writing") => CountOf(Persisted', loc[W].sid) = loc[W].base + 1
             /\ (file' # "ok" \/ pc[W] = "saving") => disk' = disk
      ]_vars

\* a fallback answered without an index, its count written
FallbackCountsOnceWitness ==
    /\ ~cfg.index /\ reply.status = 200 /\ reply.detail = FALLBACK /\ reply.sources = {}
    /\ file = "ok" /\ CountOf(Persisted, "s1") = 2 /\ reply.remaining = QUOTA - 2

\* C3: when the search finds matches and the generation fails, /ask ends
\* with the 500 error and nothing is written: file and document are as
\* before, no save is pending, and the request's copy (with its count, its
\* lazily created session) is dropped
GenerationFailureLeavesNoTrace ==
    [][\A eo \in BOOLEAN, qo \in BOOLEAN, f \in MatchLists, g \in BOOLEAN :
          (/\ ask_pipeline(W, eo, qo, f, g)
           /\ cfg.index /\ cfg.hf /\ eo /\ qo /\ f # <<>>
           /\ (~cfg.groq \/ ~g)) =>
              /\ reply'.status = 500
              /\ file' = file /\ disk' = disk
              /\ pc'[W] = "idle" /\ loc'[W] = IdleLoc
              /\ asked' = asked
      ]_vars

\* a first question of a session failed in generation: the session is not persisted
GenerationFailureWitness ==
    reply.status = 500 /\ file = "ok" /\ "s1" \notin DOMAIN Persisted.users

\* C6: a request refused for validation or authentication writes nothing
\* and calls no save_data(): every 400 or 401 leaves file, document and the
\* workers as they were, and a step that answers otherwise is none of /signup
\* with a blank name or email, an empty or short password or a registered
\* email; /login with a blank email, an empty password, an unknown email or a
\* wrong password; /ask with a blank question; an admin endpoint with a wrong
\* password
RejectionsWriteNothing ==
    [][/\ reply'.status \in {400, 401} => Untouched
       /\ (pc[W] = "idle" /\ reply'.status \notin {400, 401}) =>
            \* the step is no request of the kinds to be refused
            /\ \A n \in Names, e \in Emails, w \in SignupPasswords :
                  (\/ Strip(n) = <<>> \/ Strip(e) = <<>> \/ Len(w) < MinPasswordLen
                   \/ \E i \in 1..Len(Persisted.registered_users) :
                          Lower(Persisted.registered_users[i].email) = Lower(Strip(e)))
                  => ~signup(W, n, e, w)
            /\ \A e \in Emails, w \in LoginPasswords :
                  (\/ Strip(e) = <<>> \/ w = <<>>
                   \/ \A i \in 1..Len(Persisted.registered_users) :
                          \/ Lower(Persisted.registered_users[i].email) # Lower(Strip(e))
                          \/ Persisted.registered_users[i].password_hash # hash_password(w))
                  => ~login(W, e, w, MaxLogins)
            /\ \A s \in SessionIds, q \in Questions :
                  Strip(q) = <<>> => ~ask_question(W, s, q, MaxAsk)
            /\ \A w \in AdminInputs \ {ADMIN_PASSWORD} :
                  ~admin_auth(W, w) /\ \A op \in AdminOps : ~admin_read(W, op, w)
      ]_vars

\* a login refused for its password, with the account on file
RejectionsWitness ==
    /\ reply.status = 401 /\ reply.detail = "Incorrect password"
    /\ file = "ok" /\ Len(Persisted.registered_users) = 1

\* no two accounts of a document have emails equal ignoring case
NoDuplicateEmails(doc) ==
    \A i, j \in 1..Len(doc.registered_users) :
        i # j => Lower(doc.registered_users[i].email) # Lower(doc.registered_users[j].email)

\* the email, ignoring case and surrounding blanks, is that of an account of the document
Registered(doc, email) ==
    \E i \in 1..Len(doc.registered_users) :
        Lower(Strip(doc.registered_users[i].email)) = Lower(Strip(email))

\* C4: whatever the interleaving of the requests, no document on file (and
\* no document last written) holds two accounts whose emails are equal
\* ignoring case, and a /signup whose email matches an account of the
\* document it loads is answered 400 and appends nothing
UniqueEmails ==
    [][/\ NoDuplicateEmails(Persisted') /\ NoDuplicateEmails(disk')
       /\ \A p \in Workers :
            (pc[p] = "idle" /\ pc'[p] # "idle") =>
                \A n \in Names, e \in {<<"a">>, <<"A", " ">>, <<"b">>}, w \in SignupPasswords :
                    Registered(Persisted, e) => ~signup(p, n, e, w)
       /\ reply'.detail = "Email already registered. Please log in." =>
            (reply'.status = 400 /\ Untouched)
      ]_vars

\* two accounts on file and a signup refused as a duplicate
UniqueEmailsWitness ==
    /\ file = "ok" /\ Len(Persisted.registered_users) = 2
    /\ reply.detail = "Email already registered. Please log in."
    /\ raced

\* the credentials of a request: the email as looked up, the digest of the password
Credentials(email, password) ==
    [email |-> Lower(Strip(email)), password_hash |-> hash_password(password)]

\* the index of the account of a document with the email, 0 if none
AccountOf(doc, email_lower) == find_user(doc.registered_users, email_lower, 1)

\* the LoginEvents of a document for the email
LoginsOf(doc, email_lower) ==
    Cardinality({j \in 1..Len(doc.login_logs) : Lower(Strip(doc.login_logs[j].email)) = email_lower})

\* C5 as claimed: after a /signup answered with success, a /login with its
\* email and password is not refused, and when it returns the persisted
\* login_count is one above the one loaded
LoginAfterSignup ==
    [][/\ (pc[W] = "idle" /\ reply'.status \in {400, 401}) =>
            \A e \in Emails, w \in LoginPasswords :
                Credentials(e, w) \in signedUp => ~login(W, e, w, MaxLogins)
       /\ (Returns(W) /\ loc[W].kind = "login") =>
            /\ AccountOf(Persisted', loc[W].key) # 0
            /\ Persisted'.registered_users[AccountOf(Persisted', loc[W].key)].login_count = loc[W].base + 1
      ]_vars

\* C5 amended: as long as every save_data() has succeeded, a /login with the
\* email (any casing) and password of a /signup answered with success is
\* accepted, is answered 200, leaves login_count one above the one loaded and
\* one more LoginEvent; and every account's login_count is 1 plus the number
\* of its LoginEvents
LoginCountsEach ==
    [][~ioFault' =>
         /\ (pc[W] = "idle" /\ reply'.status \in {400, 401}) =>
              \A e \in Emails, w \in LoginPasswords :
                  Credentials(e, w) \in signedUp => ~login(W, e, w, MaxLogins)
         /\ (Returns(W) /\ loc[W].kind = "login") =>
              /\ reply'.status = 200 /\ file' = "ok"
              /\ AccountOf(disk', loc[W].key) # 0
              /\ disk'.registered_users[AccountOf(disk', loc[W].key)].login_count = loc[W].base + 1
              /\ Len(disk'.login_logs) = Len(disk.login_logs) + 1
              /\ Lower(Strip(Last(disk'.login_logs).email)) = loc[W].key
         /\ \A i \in 1..Len(disk'.registered_users) :
              disk'.registered_users[i].login_count =
                  1 + LoginsOf(disk', Lower(disk'.registered_users[i].email))
      ]_vars

\* two logins after the signup, every save having succeeded
LoginCountsEachWitness ==
    /\ ~ioFault /\ file = "ok" /\ reply.status = 200 /\ signedUp # {}
    /\ Len(disk.registered_users) = 1 /\ disk.registered_users[1].login_count = 3
    /\ Len(disk.login_logs) = 2

\* the QueryEvents of a document for the session
QueriesOf(doc, sid) ==
    Cardinality({j \in 1..Len(doc.queries) : doc.queries[j].session_id = sid})

\* C8: every counted question, answered or not, has its QueryEvent: after a
\* sequential run whose saves all succeeded, the QueryEvents of a session are
\* as many as its count
QueryEventPerCount ==
    (~ioFault /\ file = "ok") =>
        \A s \in DOMAIN Persisted.users : QueriesOf(Persisted, s) = Persisted.users[s].count

\* each session of the document last written is kept, its count not lowered
CountsKept ==
    \A s \in DOMAIN disk.users :
        s \in DOMAIN disk'.users /\ disk'.users[s].count >= disk.users[s].count

\* C7 as claimed: under any interleaving of the requests, a document
\* written later holds every session of the one written before, with a count
\* not smaller
CountsNeverDecrease == [][CountsKept]_vars

\* C7 amended: as long as no request has loaded while another was between
\* its load and its save, and every save_data() has succeeded, a document
\* written later holds every session of the one before with a count not smaller
CountsNeverDecreaseSequentially == [][(~raced' /\ ~ioFault') => CountsKept]_vars

\* two questions counted one after the other
CountsSequentialWitness ==
    ~raced /\ ~ioFault /\ file = "ok" /\ CountOf(disk, "s1") = 2 /\ signedUp # {}

\* C9: nothing orders the requests' load and save: an /ask that writes
\* leaves the count it loaded plus one, whatever has been written since it
\* loaded, and is answered with success, so that of two /ask of a session
\* that both load before either writes, both are answered and the count
\* ends one above its start
LastWriterWins ==
    [][\A p \in Workers :
          (pc[p] = "writing" /\ pc'[p] = "idle" /\ loc[p].kind = "ask" /\ file' = "ok") =>
              /\ CountOf(Persisted', loc[p].sid) = loc[p].base + 1
              /\ asked'[loc[p].sid] = asked[loc[p].sid] + 1
              /\ reply'.status = 200 /\ reply'.remaining = QUOTA - (loc[p].base + 1)
      ]_vars

\* two /ask answered, only /ask having written, no save failed, one counted
LostUpdateWitness ==
    /\ asked["s1"] = 2 /\ file = "ok" /\ CountOf(Persisted, "s1") = 1
    /\ ~ioFault /\ signedUp = {} /\ reply.status = 200
    /\ \A p \in Workers : pc[p] = "idle"

\* each /signup answered with success has its account in the document
AccountsKept(doc) ==
    \A c \in signedUp :
        \E i \in 1..Len(doc.registered_users) :
            /\ Lower(doc.registered_users[i].email) = c.email
            /\ doc.registered_users[i].password_hash = c.password_hash

\* C10 as claimed: under any interleaving of the requests, every document
\* written holds the account of each /signup answered with success
AccountsNeverLost == file = "ok" => AccountsKept(disk)

\* C10 amended: as long as no request has loaded while another was between
\* its load and its save, and every save_data() has succeeded, the document
\* last written holds the account of each /signup answered with success,
\* and no /login with such an account's email is answered 'No account found'
AccountsKeptSequentially ==
    [][(~raced' /\ ~ioFault') =>
         /\ AccountsKept(disk)'
         /\ reply'.detail = "No account found. Please sign up first." =>
              \A p \in Workers, e \in Emails, w \in LoginPasswords :
                  login(p, e, w, MaxLoginsConc) => \A c \in signedUp : c.email # Lower(Strip(e))
      ]_vars

\* after the signup, a question and a login, one after the other
AccountsKeptWitness ==
    /\ ~raced /\ ~ioFault /\ file = "ok" /\ signedUp # {}
    /\ "s1" \in DOMAIN disk.users
    /\ Len(disk.registered_users) = 1 /\ disk.registered_users[1].login_count = 2

====
